---- MODULE Spec2Model ----
(***************************************************************************)
(* Model of the astronauts dashboard (src/astronauts.py).                  *)
(*                                                                         *)
(* The program is a Streamlit script: the whole file is executed top to    *)
(* bottom once when a session starts and once more after every widget      *)
(* interaction.  One execution of the script is therefore one step of the  *)
(* state machine.  What survives between executions is the st.cache_data   *)
(* cache of load_data and the values the three sidebar widgets hold.       *)
(*                                                                         *)
(* A DataFrame is a record [cols, rows]: cols is the set of column labels  *)
(* and rows the sequence of rows, each row a function from column label to *)
(* cell.  Free-text cells that the program rewrites (Mission.Role) are     *)
(* sequences of one-character strings, so that str.lower and str.replace   *)
(* are computed character by character.                                    *)
(***************************************************************************)
EXTENDS Integers, Sequences, FiniteSets, TLC

VARIABLES
    csv,               \* the file astronauts.csv: [hdr, rows]
    cache,             \* st.cache_data entry of load_data: [hit, df]
    astro,             \* module-level astro of the last execution
    widgets,           \* sidebar widgets that hold a value in the session
    selected_years,    \* value of the "Year range" slider
    selected_genders,  \* value of the "Gender" multiselect
    selected_nats,     \* value of the "Nationality" multiselect
    df_filt,           \* module-level df_filt of the last execution
    yearly,            \* plot_cumulative: the table handed to px.line
    grp,               \* plot_top_nats: the table handed to px.bar
    top10_list,        \* plot_top_nats: the category order
    country_counts,    \* plot_choropleth: the table handed to px.choropleth
    gc,                \* plot_gender_pie: the table handed to px.pie
    rendered,          \* charts passed to st.plotly_chart, in order
    error,             \* exception that ended the last execution, or "none"
    errline,           \* source line that raised it, 0 when none
    nEvents            \* widget interactions so far

vars == <<csv, cache, astro, widgets, selected_years, selected_genders,
          selected_nats, df_filt, yearly, grp, top10_list, country_counts,
          gc, rendered, error, errline, nEvents>>

-----------------------------------------------------------------------------
(* Bounds of the model *)

MaxRows == 2

MaxEvents == 2

MaxLen == 4

MaxExtra == 1

(* Literals of the program *)

DefaultLo == 1961

DefaultHi == 2019

TopN == 10

-----------------------------------------------------------------------------
(* Generic helpers *)

Range(s) == {s[i] : i \in 1..Len(s)}

Min2(a, b) == IF a <= b THEN a ELSE b

Max2(a, b) == IF a >= b THEN a ELSE b

SetMin(S) == CHOOSE x \in S : \A y \in S : x <= y

SetMax(S) == CHOOSE x \in S : \A y \in S : x >= y

RECURSIVE SortedSeq(_)
\* sorted(values): the ascending list of a set of integers
SortedSeq(S) ==
    IF S = {} THEN <<>>
    ELSE LET m == SetMin(S) IN <<m>> \o SortedSeq(S \ {m})

RECURSIVE Unique(_)
\* Series.unique(): distinct values in order of first appearance
Unique(s) ==
    IF s = <<>> THEN <<>>
    ELSE LET init == Unique(SubSeq(s, 1, Len(s) - 1))
             last == s[Len(s)]
         IN IF last \in Range(init) THEN init ELSE Append(init, last)

\* df[col]: the column as a sequence of cells (the caller checks col \in df.cols)
Column(df, col) == [i \in 1..Len(df.rows) |-> df.rows[i][col]]

RECURSIVE Take(_, _)
\* df[mask]: the rows whose mask entry is TRUE, in their original order
Take(rows, mask) ==
    IF rows = <<>> THEN <<>>
    ELSE LET n == Len(rows)
             init == Take(SubSeq(rows, 1, n - 1), SubSeq(mask, 1, n - 1))
         IN IF mask[n] THEN Append(init, rows[n]) ELSE init

EmptyDf == [cols |-> {}, rows |-> <<>>]

-----------------------------------------------------------------------------
(* Strings as character sequences *)

UpperChars == <<"A","B","C","D","E","F","G","H","I","J","K","L","M",
                "N","O","P","Q","R","S","T","U","V","W","X","Y","Z">>

LowerChars == <<"a","b","c","d","e","f","g","h","i","j","k","l","m",
                "n","o","p","q","r","s","t","u","v","w","x","y","z">>

\* str.lower on one character
LowerChar(c) ==
    IF c \in Range(UpperChars)
    THEN LowerChars[CHOOSE i \in 1..26 : UpperChars[i] = c]
    ELSE c

\* Series.str.lower on one cell
StrLower(s) == [i \in 1..Len(s) |-> LowerChar(s[i])]

RECURSIVE StrReplace(_, _, _)
\* Series.str.replace(old, new, regex=False) on one cell: every
\* non-overlapping occurrence of old, scanning from the left
StrReplace(s, old, new) ==
    IF Len(s) < Len(old) THEN s
    ELSE IF SubSeq(s, 1, Len(old)) = old
         THEN new \o StrReplace(SubSeq(s, Len(old) + 1, Len(s)), old, new)
         ELSE <<s[1]>> \o StrReplace(Tail(s), old, new)

S_OtherJournalist ==
    <<"o","t","h","e","r"," ","(","j","o","u","r","n","a","l","i","s","t",")">>

S_Journalist == <<"j","o","u","r","n","a","l","i","s","t">>

S_OtherSpaceTourist ==
    <<"o","t","h","e","r"," ","(","s","p","a","c","e"," ",
      "t","o","u","r","i","s","t",")">>

S_SpaceTourist == <<"s","p","a","c","e"," ","t","o","u","r","i","s","t">>

S_Psp == <<"p","s","p">>

S_PayloadSpecialist ==
    <<"p","a","y","l","o","a","d"," ","s","p","e","c","i","a","l","i","s","t">>

S_Msp == <<"m","s","p">>

S_MissionSpecialist ==
    <<"m","i","s","s","i","o","n"," ","s","p","e","c","i","a","l","i","s","t">>

\* role texts as they may stand in the file
S_RawJournalist ==
    <<"O","t","h","e","r"," ","(","J","o","u","r","n","a","l","i","s","t",")">>

S_RawSpaceTourist ==
    <<"O","t","h","e","r"," ","(","S","p","a","c","e"," ",
      "T","o","u","r","i","s","t",")">>

S_RawPsp == <<"P","S","P">>

S_RawMsp == <<"M","S","P">>

S_Mspsp == <<"m","s","p","s","p">>

-----------------------------------------------------------------------------
(* Data loading and preprocessing *)

C_Name == "Profile.Name"

C_Gender == "Profile.Gender"

C_Nationality == "Profile.Nationality"

C_Overall == "Profile.Astronaut Numbers.Overall"

C_Nationwide == "Profile.Astronaut Numbers.Nationwide"

C_EvaDuration == "Profile.Lifetime Statistics.EVA duration"

C_Role == "Mission.Role"

C_MissionYear == "Mission.Year"

RawColumns == {C_Name, C_Gender, C_Nationality, C_Overall, C_Nationwide,
               C_EvaDuration, C_Role, C_MissionYear}

\* A Mission.Year cell: parses says whether read_csv's date parser accepts the
\* text, year is the calendar year of the date it yields.
DateCell(y) == [parses |-> TRUE, year |-> y]

BadDateCell == [parses |-> FALSE, year |-> 0]

\* load_data: read_csv(parse_dates=['Mission.Year']) raises ValueError when the
\* column is missing and leaves the column as text when a cell does not parse,
\* in which case the .dt accessor raises AttributeError.
load_data(file) ==
    IF C_MissionYear \notin file.hdr
    THEN [error |-> "ValueError", errline |-> 14, df |-> EmptyDf]
    ELSE IF \E i \in 1..Len(file.rows) : ~file.rows[i][C_MissionYear].parses
    THEN [error |-> "AttributeError", errline |-> 15, df |-> EmptyDf]
    ELSE [error |-> "none", errline |-> 0,
          df |-> [cols |-> file.hdr \cup {"year"},
                  rows |-> [i \in 1..Len(file.rows) |->
                             [c \in file.hdr \cup {"year"} |->
                                IF c = "year"
                                THEN file.rows[i][C_MissionYear].year
                                ELSE file.rows[i][c]]]]]

\* @st.cache_data: a hit returns a copy of the stored value, a miss runs the
\* function; an exception is not stored.
CachedLoad(c, file) ==
    IF c.hit THEN [error |-> "none", errline |-> 0, df |-> c.df]
    ELSE load_data(file)

\* .str.lower().str.replace('.', '_').str.replace(' ', '_') on the labels this
\* program reads; any other label is kept apart from the ones it reads.
ColumnName(c) ==
    CASE c = C_Name -> "profile_name"
      [] c = C_Gender -> "profile_gender"
      [] c = C_Nationality -> "profile_nationality"
      [] c = C_Overall -> "profile_astronaut_numbers_overall"
      [] c = C_Nationwide -> "profile_astronaut_numbers_nationwide"
      [] c = C_EvaDuration -> "profile_lifetime_statistics_eva_duration"
      [] c = C_Role -> "mission_role"
      [] c = C_MissionYear -> "mission_year"
      [] OTHER -> c

\* astro.columns = astro.columns.str.lower()...
RenameColumns(df) ==
    LET new == {ColumnName(c) : c \in df.cols}
        old(n) == CHOOSE c \in df.cols : ColumnName(c) = n
    IN [cols |-> new,
        rows |-> [i \in 1..Len(df.rows) |->
                    [n \in new |-> df.rows[i][old(n)]]]]

\* NormalizeRole with 'msp' replaced before 'psp'
NormalizeRoleMspFirst(s) ==
    StrReplace(
      StrReplace(
        StrReplace(
          StrReplace(StrLower(s), S_OtherJournalist, S_Journalist),
          S_OtherSpaceTourist, S_SpaceTourist),
        S_Msp, S_MissionSpecialist),
      S_Psp, S_PayloadSpecialist)

\* the chain of str methods applied to one mission_role cell
NormalizeRole(s) ==
    StrReplace(
      StrReplace(
        StrReplace(
          StrReplace(StrLower(s), S_OtherJournalist, S_Journalist),
          S_OtherSpaceTourist, S_SpaceTourist),
        S_Psp, S_PayloadSpecialist),
      S_Msp, S_MissionSpecialist)

\* astro[col] = cells : assign a column, cells holding one cell per row
AssignColumn(df, col, cells) ==
    [cols |-> df.cols \cup {col},
     rows |-> [i \in 1..Len(df.rows) |->
                 [c \in df.cols \cup {col} |->
                    IF c = col THEN cells[i] ELSE df.rows[i][c]]]]

-----------------------------------------------------------------------------
(* Filtering *)

\* years[0], years[-1] and the range the slider offers: Streamlit widens
\* min_value/max_value so that the default value lies inside.
SliderMin(df) == Min2(SetMin(Range(Column(df, "year"))), DefaultLo)

SliderMax(df) == Max2(SetMax(Range(Column(df, "year"))), DefaultHi)

\* a widget returns the value the session holds for it, else its default
Widget(w, name, held, default) == IF name \in w THEN held ELSE default

\* FilterMask with the upper end of the year range excluded
FilterMaskStrictUpper(df, sy, sg, sn) ==
    [i \in 1..Len(df.rows) |->
        /\ df.rows[i]["year"] >= sy[1]
        /\ df.rows[i]["year"] < sy[2]
        /\ df.rows[i]["profile_gender"] \in sg
        /\ df.rows[i]["profile_nationality"] \in sn]

\* FilterMask with an empty selection read as "no constraint"
FilterMaskAllWhenEmpty(df, sy, sg, sn) ==
    [i \in 1..Len(df.rows) |->
        /\ df.rows[i]["year"] >= sy[1]
        /\ df.rows[i]["year"] <= sy[2]
        /\ (sg = {} \/ df.rows[i]["profile_gender"] \in sg)
        /\ (sn = {} \/ df.rows[i]["profile_nationality"] \in sn)]

\* the boolean mask of the filter expression
FilterMask(df, sy, sg, sn) ==
    [i \in 1..Len(df.rows) |->
        /\ df.rows[i]["year"] >= sy[1]
        /\ df.rows[i]["year"] <= sy[2]
        /\ df.rows[i]["profile_gender"] \in sg
        /\ df.rows[i]["profile_nationality"] \in sn]

\* ApplyFilters with the mask applied one row late: row i is kept when
\* row i - 1 satisfies the constraints
ApplyFiltersShifted(df, sy, sg, sn) ==
    [cols |-> df.cols,
     rows |-> Take(df.rows,
                   [i \in 1..Len(df.rows) |->
                      i > 1 /\ FilterMask(df, sy, sg, sn)[i - 1]])]

\* df_filt = astro[mask]
ApplyFilters(df, sy, sg, sn) ==
    [cols |-> df.cols, rows |-> Take(df.rows, FilterMask(df, sy, sg, sn))]

-----------------------------------------------------------------------------
(* Aggregates *)

\* number of entries of s equal to v
CountOf(s, v) == Cardinality({i \in 1..Len(s) : s[i] = v})

\* max of a column over the rows whose key column equals k
GroupMax(df, key, k, col) ==
    SetMax({df.rows[i][col] : i \in {j \in 1..Len(df.rows) : df.rows[j][key] = k}})

\* key of sort_values(['mission_year','profile_astronaut_numbers_overall'])
SortKeyLeq(a, b) ==
    \/ a["mission_year"].year < b["mission_year"].year
    \/ /\ a["mission_year"].year = b["mission_year"].year
       /\ a["profile_astronaut_numbers_overall"]
            <= b["profile_astronaut_numbers_overall"]

RECURSIVE Insert(_, _)
\* r put behind the last row of the sorted rows whose key is not above r's
Insert(rows, r) ==
    IF rows = <<>> THEN <<r>>
    ELSE IF SortKeyLeq(rows[Len(rows)], r) THEN Append(rows, r)
         ELSE Append(Insert(SubSeq(rows, 1, Len(rows) - 1), r), rows[Len(rows)])

RECURSIVE SortValues(_)
\* DataFrame.sort_values on the rows
SortValues(rows) ==
    IF rows = <<>> THEN <<>>
    ELSE Insert(SortValues(SubSeq(rows, 1, Len(rows) - 1)), rows[Len(rows)])

\* YearAgg with 'min' in place of 'max'
YearAggMin(df, y) ==
    SetMin({df.rows[i]["profile_astronaut_numbers_overall"] :
              i \in {j \in 1..Len(df.rows) : df.rows[j]["year"] = y}})

\* the aggregation function of .agg({...: 'max'}) over one group
YearAgg(df, y) == GroupMax(df, "year", y, "profile_astronaut_numbers_overall")

\* plot_cumulative: yearly, one (year, cum_overall) row per year, groupby
\* sorting its keys
plot_cumulative(df) ==
    LET sorted_ == [cols |-> df.cols, rows |-> SortValues(df.rows)]
        keys == SortedSeq(Range(Column(sorted_, "year")))
    IN [k \in 1..Len(keys) |->
          [year |-> keys[k], cum_overall |-> YearAgg(sorted_, keys[k])]]

RECURSIVE ByCount(_, _)
\* the distinct values u ordered by descending count in s, equal counts in
\* order of first appearance
ByCount(u, s) ==
    IF u = <<>> THEN <<>>
    ELSE LET best == CHOOSE i \in 1..Len(u) :
                       /\ \A j \in 1..Len(u) : CountOf(s, u[i]) >= CountOf(s, u[j])
                       /\ \A j \in 1..(i - 1) : CountOf(s, u[j]) < CountOf(s, u[i])
             rest == [j \in 1..(Len(u) - 1) |-> IF j < best THEN u[j] ELSE u[j + 1]]
         IN <<[value |-> u[best], count |-> CountOf(s, u[best])]>> \o ByCount(rest, s)

\* Series.value_counts()
ValueCounts(s) == ByCount(Unique(s), s)

\* NLargest keeping the n least frequent values
NSmallest(vc, n) == SubSeq(vc, Len(vc) - Min2(n, Len(vc)) + 1, Len(vc))

\* Series.nlargest(n) of a value_counts() result
NLargest(vc, n) == SubSeq(vc, 1, Min2(n, Len(vc)))

\* top10_list
Top10List(df) ==
    LET top10_series == NLargest(ValueCounts(Column(df, "profile_nationality")), TopN)
    IN [k \in 1..Len(top10_series) |-> top10_series[k].value]

\* plot_top_nats: grp, one row per observed (nationality, gender) pair of the
\* rows whose nationality is in top10_list, with the size of its group
plot_top_nats(df) ==
    LET top == Range(Top10List(df))
        kept == {i \in 1..Len(df.rows) : df.rows[i]["profile_nationality"] \in top}
        pairs == {<<df.rows[i]["profile_nationality"], df.rows[i]["profile_gender"]>> :
                     i \in kept}
    IN {[profile_nationality |-> p[1], profile_gender |-> p[2],
         count |-> Cardinality({i \in kept :
                      /\ df.rows[i]["profile_nationality"] = p[1]
                      /\ df.rows[i]["profile_gender"] = p[2]})] : p \in pairs}

\* plot_choropleth: country_counts
plot_choropleth(df) ==
    {[profile_nationality |-> n,
      count |-> GroupMax(df, "profile_nationality", n,
                         "profile_astronaut_numbers_nationwide")] :
        n \in Range(Column(df, "profile_nationality"))}

\* KeepRow with keep='last'
KeepRowLast(names, i) == \A j \in (i + 1)..Len(names) : names[j] # names[i]

\* keep of drop_duplicates: row i stays when no earlier row has its name
KeepRow(names, i) == \A j \in 1..(i - 1) : names[j] # names[i]

\* DataFrame.drop_duplicates(subset='profile_name')
DropDuplicates(df) ==
    LET names == Column(df, "profile_name")
    IN [cols |-> df.cols,
        rows |-> Take(df.rows, [i \in 1..Len(df.rows) |-> KeepRow(names, i)])]

\* plot_gender_pie: gc
plot_gender_pie(df) == ValueCounts(Column(DropDuplicates(df), "profile_gender"))

\* plot_eva_pie: ec
plot_eva_pie(df) == ValueCounts(Column(DropDuplicates(df), "profile_eva_activity"))

-----------------------------------------------------------------------------
(* One execution of the script *)

Raise(s, kind, line) == [s EXCEPT !.error = kind, !.errline = line]

\* the state of an execution when load_data has returned or raised; w, sy, sg
\* and sn are what the session holds for the widgets
Begin(ld, w, sy, sg, sn) ==
    [error |-> ld.error, errline |-> ld.errline, loaded |-> ld.error = "none",
     raw |-> ld.df, astro |-> ld.df, w |-> w, sy |-> sy, sg |-> sg, sn |-> sn,
     df_filt |-> EmptyDf, yearly |-> <<>>, grp |-> {}, top10 |-> <<>>,
     cc |-> {}, gc |-> <<>>, rendered |-> <<>>]

\* the right-hand side of the mission_role assignment
RoleCells(df) ==
    [i \in 1..Len(df.rows) |-> NormalizeRole(df.rows[i]["mission_role"])]

\* the right-hand side of the profile_eva_activity assignment
EvaCells(df) ==
    [i \in 1..Len(df.rows) |->
       df.rows[i]["profile_lifetime_statistics_eva_duration"] # 0]

\* normalize column names & clean up mission_role, EVA flag
Preprocess(s) ==
    IF s.error # "none" THEN s
    ELSE LET a == RenameColumns(s.astro)
         IN IF "mission_role" \notin a.cols
            THEN Raise([s EXCEPT !.astro = a], "KeyError", 29)
            ELSE LET b == AssignColumn(a, "mission_role", RoleCells(a))
                 IN IF "profile_lifetime_statistics_eva_duration" \notin b.cols
                    THEN Raise([s EXCEPT !.astro = b], "KeyError", 37)
                    ELSE [s EXCEPT !.astro =
                            AssignColumn(b, "profile_eva_activity", EvaCells(b))]

\* the year slider
SidebarYears(s) ==
    IF s.error # "none" THEN s
    ELSE [s EXCEPT !.sy = Widget(s.w, "years", s.sy, <<DefaultLo, DefaultHi>>),
                   !.w = s.w \cup {"years"}]

\* the gender multiselect
SidebarGenders(s) ==
    IF s.error # "none" THEN s
    ELSE IF "profile_gender" \notin s.astro.cols THEN Raise(s, "KeyError", 49)
    ELSE LET genders == Unique(Column(s.astro, "profile_gender"))
         IN [s EXCEPT !.sg = Widget(s.w, "genders", s.sg, Range(genders)),
                      !.w = s.w \cup {"genders"}]

\* the nationality multiselect
SidebarNats(s) ==
    IF s.error # "none" THEN s
    ELSE IF "profile_nationality" \notin s.astro.cols THEN Raise(s, "KeyError", 54)
    ELSE LET nats == Unique(Column(s.astro, "profile_nationality"))
         IN [s EXCEPT !.sn = Widget(s.w, "nats", s.sn, Range(nats)),
                      !.w = s.w \cup {"nats"}]

\* apply filters
Filter(s) ==
    IF s.error # "none" THEN s
    ELSE [s EXCEPT !.df_filt = ApplyFilters(s.astro, s.sy, s.sg, s.sn)]

\* st.plotly_chart(plot_cumulative(df_filt))
ShowCumulative(s) ==
    IF s.error # "none" THEN s
    ELSE IF "profile_astronaut_numbers_overall" \notin s.df_filt.cols
    THEN Raise(s, "KeyError", 73)
    ELSE [s EXCEPT !.yearly = plot_cumulative(s.df_filt),
                   !.rendered = Append(s.rendered, "plot_cumulative")]

\* st.plotly_chart(plot_top_nats(df_filt))
ShowTopNats(s) ==
    IF s.error # "none" THEN s
    ELSE [s EXCEPT !.top10 = Top10List(s.df_filt),
                   !.grp = plot_top_nats(s.df_filt),
                   !.rendered = Append(s.rendered, "plot_top_nats")]

\* st.plotly_chart(plot_choropleth(df_filt))
ShowChoropleth(s) ==
    IF s.error # "none" THEN s
    ELSE IF "profile_astronaut_numbers_nationwide" \notin s.df_filt.cols
    THEN Raise(s, "KeyError", 182)
    ELSE [s EXCEPT !.cc = plot_choropleth(s.df_filt),
                   !.rendered = Append(s.rendered, "plot_choropleth")]

\* st.plotly_chart(plot_gender_pie(df_filt))
ShowGenderPie(s) ==
    IF s.error # "none" THEN s
    ELSE IF "profile_name" \notin s.df_filt.cols THEN Raise(s, "KeyError", 159)
    ELSE [s EXCEPT !.gc = plot_gender_pie(s.df_filt),
                   !.rendered = Append(s.rendered, "plot_gender_pie")]

\* the script from its first line to its last
Script(ld, w, sy, sg, sn) ==
    ShowGenderPie(ShowChoropleth(ShowTopNats(ShowCumulative(
      Filter(SidebarNats(SidebarGenders(SidebarYears(
        Preprocess(Begin(ld, w, sy, sg, sn))))))))))

\* CacheAfter when the cache hands out the stored object itself, which the
\* script then renames and rewrites in place
CacheAfterInPlace(c, r) ==
    IF r.loaded THEN [hit |-> TRUE, df |-> r.astro] ELSE c

\* what the cache of load_data holds after an execution
CacheAfter(c, r) ==
    IF ~c.hit /\ r.loaded THEN [hit |-> TRUE, df |-> r.raw] ELSE c

-----------------------------------------------------------------------------
(* Input files *)

Row(name, y, gender, nat, overall, nationwide, role, eva) ==
    (C_Name :> name) @@ (C_MissionYear :> DateCell(y)) @@ (C_Gender :> gender)
    @@ (C_Nationality :> nat) @@ (C_Overall :> overall)
    @@ (C_Nationwide :> nationwide) @@ (C_Role :> role) @@ (C_EvaDuration :> eva)

PoolRows ==
    { Row("A", 1965, "male", "U.S.", 2, 1, S_RawPsp, 0),
      Row("B", 1965, "female", "U.S.S.R.", 3, 2, S_RawMsp, 350),
      Row("A", 1960, "female", "U.S.", 1, 3, <<"p","i","l","o","t">>, 350),
      Row("C", 2020, "male", "U.K.", 5, 1, S_RawPsp, 0),
      Row("D", 2019, "female", "U.K.", 4, 2, S_RawJournalist, 0) }

\* tables of 1..MaxRows rows
SmallTables == UNION {[1..n -> PoolRows] : n \in 1..MaxRows}

SampleTable ==
    << Row("A", 1965, "male", "U.S.", 2, 1, S_RawPsp, 0),
       Row("B", 1965, "female", "U.S.S.R.", 3, 2, S_RawMsp, 350) >>

\* the table with column c left out of the file
WithoutColumn(rows, c) ==
    [i \in 1..Len(rows) |-> [k \in RawColumns \ {c} |-> rows[i][k]]]

\* the table with the Mission.Year text of row i unparseable
WithBadDate(rows, i) ==
    [j \in 1..Len(rows) |->
       IF j = i THEN [rows[j] EXCEPT ![C_MissionYear] = BadDateCell] ELSE rows[j]]

DashboardFiles ==
    {[hdr |-> RawColumns, rows |-> t] : t \in SmallTables}
    \cup {[hdr |-> RawColumns \ {c}, rows |-> WithoutColumn(SampleTable, c)] :
             c \in RawColumns}
    \cup {[hdr |-> RawColumns, rows |-> WithBadDate(SampleTable, i)] : i \in 1..2}

\* values the model lets the user drag the slider ends to
YearChoices == {1960, 1961, 1965, 2019, 2020}

-----------------------------------------------------------------------------
(* The session *)

InitWith(files) ==
    /\ csv \in files
    /\ cache = [hit |-> FALSE, df |-> EmptyDf]
    /\ astro = EmptyDf
    /\ widgets = {}
    /\ selected_years = <<0, 0>>
    /\ selected_genders = {}
    /\ selected_nats = {}
    /\ df_filt = EmptyDf
    /\ yearly = <<>>
    /\ grp = {}
    /\ top10_list = <<>>
    /\ country_counts = {}
    /\ gc = <<>>
    /\ rendered = <<>>
    /\ error = "notrun"
    /\ errline = 0
    /\ nEvents = 0

\* run the script with the session's widget values w, sy, sg, sn
Execute(w, sy, sg, sn) ==
    \E r \in {Script(CachedLoad(cache, csv), w, sy, sg, sn)} :
       /\ cache' = CacheAfter(cache, r)
       /\ astro' = r.astro
       /\ widgets' = r.w
       /\ selected_years' = r.sy
       /\ selected_genders' = r.sg
       /\ selected_nats' = r.sn
       /\ df_filt' = r.df_filt
       /\ yearly' = r.yearly
       /\ grp' = r.grp
       /\ top10_list' = r.top10
       /\ country_counts' = r.cc
       /\ gc' = r.gc
       /\ rendered' = r.rendered
       /\ error' = r.error
       /\ errline' = r.errline
       /\ UNCHANGED csv

\* the session opens: the script runs with no widget value in the session
FirstRun ==
    /\ error = "notrun"
    /\ Execute({}, selected_years, selected_genders, selected_nats)
    /\ UNCHANGED nEvents

\* the user moves the year slider
ChangeYears ==
    /\ "years" \in widgets
    /\ nEvents < MaxEvents
    /\ \E lo \in YearChoices, hi \in YearChoices :
          /\ SliderMin(astro) <= lo
          /\ lo <= hi
          /\ hi <= SliderMax(astro)
          /\ <<lo, hi>> # selected_years
          /\ Execute(widgets, <<lo, hi>>, selected_genders, selected_nats)
    /\ nEvents' = nEvents + 1

\* the selections one interaction with a multiselect can leave: an option
\* removed, an option added, or everything cleared
Reselect(options, current) ==
    ({current \ {o} : o \in options} \cup {current \cup {o} : o \in options}
       \cup {{}}) \ {current}

\* the user changes the gender multiselect
ChangeGenders ==
    /\ "genders" \in widgets
    /\ nEvents < MaxEvents
    /\ \E G \in Reselect(Range(Column(astro, "profile_gender")), selected_genders) :
          Execute(widgets, selected_years, G, selected_nats)
    /\ nEvents' = nEvents + 1

\* the user changes the nationality multiselect
ChangeNats ==
    /\ "nats" \in widgets
    /\ nEvents < MaxEvents
    /\ \E N \in Reselect(Range(Column(astro, "profile_nationality")), selected_nats) :
          Execute(widgets, selected_years, selected_genders, N)
    /\ nEvents' = nEvents + 1

Next == FirstRun \/ ChangeYears \/ ChangeGenders \/ ChangeNats

Init == InitWith(DashboardFiles)

Spec == Init /\ [][Next]_vars

-----------------------------------------------------------------------------
(* Wide tables: more nationalities than plot_top_nats keeps *)

NatNames == <<"N01", "N02", "N03", "N04", "N05", "N06", "N07", "N08", "N09",
              "N10", "N11", "N12">>

WideBase ==
    [i \in 1..(TopN + 1) |->
       Row(NatNames[i], 1965, "male", NatNames[i], i, 1, S_RawPsp, 0)]

WideExtras ==
    { Row("X", 1965, "male", "N11", 20, 2, S_RawPsp, 0),
      Row("Y", 2019, "female", "N12", 21, 1, S_RawMsp, 350),
      Row("Z", 1965, "female", "N01", 22, 2, S_RawMsp, 0) }

WideFiles ==
    {[hdr |-> RawColumns, rows |-> WideBase \o t] :
        t \in UNION {[1..n -> WideExtras] : n \in 0..MaxExtra}}

InitTop == InitWith(WideFiles)

SpecTop == InitTop /\ [][Next]_vars

-----------------------------------------------------------------------------
(* Tables that vary the Mission.Role text *)

RoleAlphabet == {"M", "s", "p", "x"}

RoleInputs ==
    UNION {[1..n -> RoleAlphabet] : n \in 1..MaxLen}
    \cup {S_RawJournalist, S_RawSpaceTourist, S_RawPsp, S_RawMsp, S_Mspsp}

RoleFiles ==
    {[hdr |-> RawColumns,
      rows |-> <<Row("A", 1965, "male", "U.S.", 2, 1, role, 0)>>] :
        role \in RoleInputs}

InitRole == InitWith(RoleFiles)

SpecRole == InitRole /\ [][Next]_vars

-----------------------------------------------------------------------------
(* Properties *)

\* the last execution got past the filter expression
FilterRan == error = "none" \/ (error # "notrun" /\ errline > 65)

Shown(chart) == chart \in Range(rendered)

\* positions of the rows of astro that satisfy the three constraints
Matching ==
    {i \in 1..Len(astro.rows) :
        /\ selected_years[1] <= astro.rows[i]["year"]
        /\ astro.rows[i]["year"] <= selected_years[2]
        /\ astro.rows[i]["profile_gender"] \in selected_genders
        /\ astro.rows[i]["profile_nationality"] \in selected_nats}

\* the k-th smallest element of a set of positions
Kth(S, k) == CHOOSE i \in S : Cardinality({j \in S : j < i}) = k - 1

\* C1: the filtered table holds exactly the rows of the normalized table
\* whose year lies in [y_lo, y_hi], whose gender is in G and whose
\* nationality is in N, in the order they have in the normalized table.
C1_FilterExact ==
    FilterRan =>
       /\ selected_years[1] <= selected_years[2]
       /\ Len(df_filt.rows) = Cardinality(Matching)
       /\ \A k \in 1..Len(df_filt.rows) :
             df_filt.rows[k] = astro.rows[Kth(Matching, k)]

\* a row that is filtered out stands before a row that is kept
C1_Witness ==
    /\ FilterRan
    /\ nEvents > 0
    /\ Len(astro.rows) >= 2
    /\ 1 \notin Matching
    /\ 2 \in Matching

\* C2 (as claimed): before the user has touched any widget the filtered
\* table is the whole normalized table, whatever years the data holds.
C2_DefaultsKeepEverything ==
    (error = "none" /\ nEvents = 0) => df_filt.rows = astro.rows

\* the columns the program reads, under their labels in the file
MissingColumns == RawColumns \ csv.hdr

DateUnreadable ==
    \/ C_MissionYear \notin csv.hdr
    \/ \E i \in 1..Len(csv.rows) : ~csv.rows[i][C_MissionYear].parses

Fatal == error \notin {"none", "notrun"}

\* C3 (as claimed): an execution fails in one of two ways only, the date
\* column being absent or unparseable (raised by load_data) or a required
\* column being missing (a KeyError), and a failed execution has drawn no
\* chart; a missing column is never defaulted.  ("No filtered table" is read
\* in the claim's favour as "none shown": df_filt is never shown by itself.)
C3_FatalBeforeAnyOutput ==
    /\ Fatal =>
         /\ error \in {"ValueError", "AttributeError", "KeyError"}
         /\ (error \in {"ValueError", "AttributeError"}) <=> DateUnreadable
         /\ (error = "KeyError") => MissingColumns # {}
         /\ rendered = <<>>
    /\ (error # "notrun" /\ (MissingColumns # {} \/ DateUnreadable)) => Fatal

AllCharts ==
    <<"plot_cumulative", "plot_top_nats", "plot_choropleth", "plot_gender_pie">>

\* C4: an empty gender or nationality selection gives an empty filtered
\* table, and on an empty filtered table of a file with every column the
\* execution ends without an exception, every chart is drawn and every
\* aggregate is empty.
C4_EmptySelectionEmptyResult ==
    FilterRan =>
       /\ (selected_genders = {} \/ selected_nats = {}) => df_filt.rows = <<>>
       /\ (df_filt.rows = <<>> /\ MissingColumns = {}) =>
             /\ error = "none"
             /\ rendered = AllCharts
             /\ yearly = <<>>
             /\ grp = {}
             /\ top10_list = <<>>
             /\ country_counts = {}
             /\ gc = <<>>
             /\ plot_eva_pie(df_filt) = <<>>

\* the user has emptied one multiselect over a table that has rows
C4_Witness ==
    /\ error = "none"
    /\ nEvents > 0
    /\ selected_genders = {}
    /\ selected_nats # {}
    /\ Len(astro.rows) > 0
    /\ \E i \in 1..Len(astro.rows) :
          /\ selected_years[1] <= astro.rows[i]["year"]
          /\ astro.rows[i]["year"] <= selected_years[2]
    /\ rendered = AllCharts

FiltYears == {df_filt.rows[i]["year"] : i \in 1..Len(df_filt.rows)}

OverallOf(y) ==
    {df_filt.rows[i]["profile_astronaut_numbers_overall"] :
        i \in {j \in 1..Len(df_filt.rows) : df_filt.rows[j]["year"] = y}}

\* C5: yearly has one row per distinct year of the filtered table, the years
\* strictly increase, and each value is the largest
\* astronaut_numbers_overall of the filtered rows of that year.
C5_YearlyMax ==
    Shown("plot_cumulative") =>
       /\ {yearly[k].year : k \in 1..Len(yearly)} = FiltYears
       /\ Len(yearly) = Cardinality(FiltYears)
       /\ \A k \in 1..(Len(yearly) - 1) : yearly[k].year < yearly[k + 1].year
       /\ \A k \in 1..Len(yearly) :
             /\ yearly[k].cum_overall \in OverallOf(yearly[k].year)
             /\ \A v \in OverallOf(yearly[k].year) : v <= yearly[k].cum_overall

\* two filtered rows share a year and differ in the counter, the later row
\* holding the smaller one
C5_Witness ==
    /\ Shown("plot_cumulative")
    /\ \E i, j \in 1..Len(df_filt.rows) :
          /\ i < j
          /\ df_filt.rows[i]["year"] = df_filt.rows[j]["year"]
          /\ df_filt.rows[i]["profile_astronaut_numbers_overall"]
               > df_filt.rows[j]["profile_astronaut_numbers_overall"]

FiltNats == {df_filt.rows[i]["profile_nationality"] : i \in 1..Len(df_filt.rows)}

NatFreq(n) ==
    Cardinality({i \in 1..Len(df_filt.rows) :
                    df_filt.rows[i]["profile_nationality"] = n})

PairFreq(n, g) ==
    Cardinality({i \in 1..Len(df_filt.rows) :
                    /\ df_filt.rows[i]["profile_nationality"] = n
                    /\ df_filt.rows[i]["profile_gender"] = g})

Returned == {r.profile_nationality : r \in grp}

\* C6: grp names at most 10 nationalities, each at least as frequent in the
\* filtered table as every nationality it leaves out, and holds for each of
\* them one row per observed (nationality, gender) pair whose count is the
\* number of filtered rows with that pair.
C6_TopTen ==
    Shown("plot_top_nats") =>
       /\ Cardinality(Returned) <= 10
       /\ Returned \subseteq FiltNats
       /\ Returned = Range(top10_list)
       /\ \A n \in Returned : \A m \in FiltNats \ Returned : NatFreq(n) >= NatFreq(m)
       /\ \A r \in grp : /\ r.count > 0
                         /\ r.count = PairFreq(r.profile_nationality, r.profile_gender)
       /\ \A i \in 1..Len(df_filt.rows) :
             df_filt.rows[i]["profile_nationality"] \in Returned =>
                Cardinality({r \in grp :
                   /\ r.profile_nationality = df_filt.rows[i]["profile_nationality"]
                   /\ r.profile_gender = df_filt.rows[i]["profile_gender"]}) = 1

\* more than 10 nationalities are present, and a more frequent one stands
\* after ten others in the table
C6_Witness ==
    /\ Shown("plot_top_nats")
    /\ Cardinality(FiltNats) > 10
    /\ Cardinality(Returned) = 10
    /\ \E n \in Returned : \E m \in FiltNats \ Returned : NatFreq(n) > NatFreq(m)
    /\ \E r \in grp : r.count > 1

FiltNames == {df_filt.rows[i]["profile_name"] : i \in 1..Len(df_filt.rows)}

\* position of the first filtered row of a person
FirstRowOf(name) ==
    CHOOSE i \in 1..Len(df_filt.rows) :
       /\ df_filt.rows[i]["profile_name"] = name
       /\ \A j \in 1..(i - 1) : df_filt.rows[j]["profile_name"] # name

RECURSIVE SumCounts(_)
SumCounts(vc) == IF vc = <<>> THEN 0 ELSE vc[1].count + SumCounts(Tail(vc))

\* a value_counts table counts each person once, under the value col has in
\* the person's first filtered row
PerPerson(vc, col) ==
    /\ SumCounts(vc) = Cardinality(FiltNames)
    /\ \A k \in 1..Len(vc) :
          vc[k].count =
             Cardinality({n \in FiltNames : df_filt.rows[FirstRowOf(n)][col] = vc[k].value})
    /\ \A k, l \in 1..Len(vc) : vc[k].value = vc[l].value => k = l

\* C7: the gender and the EVA breakdown count each distinct name of the
\* filtered table once, with the category of its first row, so the counts
\* add up to the number of distinct names.
C7_PerPersonCounts ==
    Shown("plot_gender_pie") =>
       /\ PerPerson(gc, "profile_gender")
       /\ PerPerson(plot_eva_pie(df_filt), "profile_eva_activity")

\* one person has two filtered rows, of different years and categories
C7_Witness ==
    /\ Shown("plot_gender_pie")
    /\ \E i, j \in 1..Len(df_filt.rows) :
          /\ i < j
          /\ df_filt.rows[i]["profile_name"] = df_filt.rows[j]["profile_name"]
          /\ df_filt.rows[i]["year"] # df_filt.rows[j]["year"]
          /\ df_filt.rows[i]["profile_gender"] # df_filt.rows[j]["profile_gender"]
          /\ df_filt.rows[i]["profile_eva_activity"]
               # df_filt.rows[j]["profile_eva_activity"]

\* C8: after any sequence of filter changes the cache still holds the table
\* load_data returned for the file, and astro, df_filt and the data of every
\* chart are those one execution computes from that table and the current
\* three widget values.
C8_RecomputedFromBase ==
    (error # "notrun" /\ ~DateUnreadable) =>
       /\ cache = [hit |-> TRUE, df |-> load_data(csv).df]
       /\ \E r \in {Script(load_data(csv), {"years", "genders", "nats"},
                           selected_years, selected_genders, selected_nats)} :
             /\ astro = r.astro
             /\ df_filt = r.df_filt
             /\ yearly = r.yearly
             /\ grp = r.grp
             /\ top10_list = r.top10
             /\ country_counts = r.cc
             /\ gc = r.gc
             /\ rendered = r.rendered
             /\ error = r.error

\* two filter changes have been made and rows are filtered out
C8_Witness ==
    /\ error = "none"
    /\ nEvents >= 2
    /\ Len(df_filt.rows) > 0
    /\ Len(df_filt.rows) < Len(astro.rows)

RECURSIVE Contains(_, _)
\* sub occurs in s
Contains(s, sub) ==
    IF Len(s) < Len(sub) THEN FALSE
    ELSE SubSeq(s, 1, Len(sub)) = sub \/ Contains(Tail(s), sub)

S_MspspOut ==
    S_MissionSpecialist
    \o <<"a","y","l","o","a","d"," ","s","p","e","c","i","a","l","i","s","t">>

\* what C9 says of one cell: raw is the text in the file, out the cell of astro
RoleRewritten(raw, out) ==
    /\ raw = S_RawJournalist => out = S_Journalist
    /\ raw = S_RawSpaceTourist => out = S_SpaceTourist
    /\ raw = S_RawPsp => out = S_PayloadSpecialist
    /\ raw = S_RawMsp => out = S_MissionSpecialist
    /\ raw = S_Mspsp => out = S_MspspOut
    /\ Contains(StrLower(raw), S_Msp) =>
          /\ Contains(out, S_MissionSpecialist)
          /\ ~Contains(out, S_Msp)
    /\ Contains(StrLower(raw), S_Psp) =>
          /\ out # StrLower(raw)
          /\ Contains(out, S_PayloadSpecialist) \/ Contains(out, S_MissionSpecialist)
          /\ ~Contains(out, S_Psp)
    /\ (\A pat \in {S_Msp, S_Psp, S_OtherJournalist, S_OtherSpaceTourist} :
           ~Contains(StrLower(raw), pat)) => out = StrLower(raw)

\* C9: the mission_role column of astro is the file's text lowercased and then
\* rewritten by the four substring replacements in the order of the source,
\* 'psp' before 'msp', also inside longer tokens.
C9_RoleNormalized ==
    (error = "none") =>
       \A i \in 1..Len(astro.rows) :
          RoleRewritten(csv.rows[i][C_Role], astro.rows[i]["mission_role"])

\* a role text with 'msp' inside a longer token has been loaded
C9_Witness ==
    /\ error = "none"
    /\ Len(csv.rows[1][C_Role]) > 3
    /\ csv.rows[1][C_Role] # S_Mspsp
    /\ Contains(StrLower(csv.rows[1][C_Role]), S_Msp)
    /\ csv.rows[1][C_Role] # StrLower(csv.rows[1][C_Role])

\* C10: filtering the filtered table again with the same three constraints
\* returns the filtered table unchanged.
C10_FilterIdempotent ==
    FilterRan =>
       ApplyFilters(df_filt, selected_years, selected_genders, selected_nats) = df_filt

\* the filter has dropped some rows and kept others
C10_Witness ==
    /\ FilterRan
    /\ nEvents > 0
    /\ Len(df_filt.rows) > 0
    /\ Len(df_filt.rows) < Len(astro.rows)
    /\ 1 \notin Matching

====
